---- MODULE Spec2Model ----
(***************************************************************************)
(* zabbix-libvirt: the LibvirtConnection inspector (libvirt_checks.py) and *)
(* the command-line entry point (main.py), run against a libvirt host      *)
(* whose domain set and power states change between any two library calls. *)
(***************************************************************************)
EXTENDS FiniteSets, Integers, Sequences, TLC

\* ------------------------------------------------------------------ bounds
MaxRaw == 2        \* largest raw counter value the host reports
MaxCpuTime == 5    \* largest accumulated cpu time the host reports
MaxCores == 2      \* largest virtual core count the host reports
MaxIds == 5        \* number of calls (frames) one session may start

\* -------------------------------------------------------- program constants
KiB == 1024

\* ------------------------------------------------------------ python values
\* Values are tagged with their Python type, so that 0 and "0" differ.
PyInt(n) == [int |-> n]
PyStr(s) == [str |-> s]
None == [none |-> TRUE]
IsStr(v) == DOMAIN v = {"str"}
\* str(n) for a non-negative integer: its decimal digits.
str(n) == PyStr(ToString(n))

Return(v) == [kind |-> "return", value |-> v]
Raise(e) == [kind |-> "raise", exc |-> e]
NoRet == [kind |-> "none"]
NoExc == [type |-> "none"]

\* An error raised by the libvirt binding: the failing call and libvirt's code.
ErrCodes == {"VIR_ERR_OPERATION_INVALID", "VIR_ERR_INTERNAL_ERROR"}
libvirtError(call, code) == [type |-> "libvirtError", call |-> call, code |-> code]
LibvirtConnectionError(msg) == [type |-> "LibvirtConnectionError", msg |-> msg]
DomainNotFoundError(msg) == [type |-> "DomainNotFoundError", msg |-> msg]
NameError(name) == [type |-> "NameError", name |-> name]
KeyError(key) == [type |-> "KeyError", key |-> key]
AttributeError(attr) == [type |-> "AttributeError", attr |-> attr]
ZeroDivisionError == [type |-> "ZeroDivisionError"]

\* -------------------------------------------------------------- the host
DomainOrder == <<"u1", "u2">>
UUIDS == {DomainOrder[i] : i \in 1..Len(DomainOrder)}
Uri == "qemu:///system"
Hostname == "virt-host"
DomainName(u) == "name-" \o u
Ifaces == {"vnet0"}
Disks == {"vda"}

\* A domain handle: the frame that obtained it, the domain it names, and how
\* it was obtained (lookupByUUIDString or listAllDomains).
NoHandle == [id |-> 0, uuid |-> "", via |-> "none"]
Handle(id, u, via) == [id |-> id, uuid |-> u, via |-> via]

\* The descriptor XMLDesc() returns, as the parsed tree: the nova metadata
\* (absent, an instance block without owner, or an owner whose user and
\* project elements may be missing, lack the uuid attribute or have no text)
\* and the dev attributes of the interface and disk targets.
AttrValues(s) == {None, PyStr(s)}
NoElement == [element |-> FALSE]
Elements(u, t) == {NoElement} \cup
    {[element |-> TRUE, uuid |-> a, text |-> b] : a \in AttrValues(u), b \in AttrValues(t)}
NovaBlocks == {[block |-> "absent"], [block |-> "instance"]} \cup
    {[block |-> "owner", user |-> us, project |-> pr] :
        us \in Elements("user-id", "alice"), pr \in Elements("project-id", "demo")}
Targets(devs) == {<<>>} \cup {<<d>> : d \in AttrValues(CHOOSE x \in devs : TRUE)}
Descriptors == {[nova |-> n, interfaces |-> i, disks |-> d] :
    n \in NovaBlocks, i \in Targets(Ifaces), d \in Targets(Disks)}

\* The counters the host reports.
MemKeys == {"unused", "usable", "actual"}
MemoryStats == UNION {[K -> 0..MaxRaw] : K \in SUBSET MemKeys}
InterfaceStats == {<<rx, 0, 0, 0, tx, 0, 0, 0>> : rx \in 0..MaxRaw, tx \in 0..MaxRaw}
DiskKeys == {"wr_total_times", "rd_operations", "flush_total_times", "rd_total_times",
    "rd_bytes", "flush_operations", "wr_operations", "wr_bytes"}
BlockStats == {[k \in DiskKeys |-> IF k \in {"rd_bytes", "wr_bytes"} THEN v ELSE w] :
    v \in 0..MaxRaw, w \in 0..1}
DomainInfos == {<<st, 4, 4, c, t>> : st \in {1, 5}, c \in 0..MaxCores, t \in 0..MaxCpuTime}
Clock == {0, 1}

VARIABLES
    defined,    \* the UUIDs of the domains the host knows
    active,     \* power state of each domain
    caller,     \* who drives the session: main() or a library user
    pc,         \* position of the caller: start, ready, busy, exit
    conn,       \* the session: none, open, failed
    args,       \* the arguments of the call in progress
    stack,      \* the frames of the call in progress, innermost last
    nextId,     \* identity of the next frame
    ret,        \* outcome of the last completed call
    stdout,     \* what main() printed
    logged,     \* whether main() logged the connection failure
    escaped,    \* the exception that left the caller, if any
    obs,        \* history: what the host answered during the call
    lastQuery   \* history: the last domain-scoped query and its handle

vars == <<defined, active, caller, pc, conn, args, stack, nextId, ret, stdout,
    logged, escaped, obs, lastQuery>>
host == <<defined, active>>

\* ------------------------------------------------- libvirt_checks.py, pure
\* conn.lookupByUUIDString: a handle, or libvirtError when no domain has it.
lookupByUUIDString(known, uuidstr, id) ==
    IF uuidstr \in known
    THEN Return(Handle(id, uuidstr, "uuid"))
    ELSE Raise(libvirtError("lookupByUUIDString", "VIR_ERR_NO_DOMAIN"))

\* Variant: the failed lookup yields no handle instead of raising.
lookup_returns_null(known, domain_uuid_string, id) ==
    LET r == lookupByUUIDString(known, domain_uuid_string, id)
    IN  IF r.kind = "raise" THEN Return(NoHandle) ELSE r

_get_domain_by_uuid(known, domain_uuid_string, id) ==
    LET r == lookupByUUIDString(known, domain_uuid_string, id)
    IN  IF r.kind = "raise"
        THEN Raise(DomainNotFoundError("Failed to find domain: " \o domain_uuid_string))
        ELSE r

\* Variant: the power state is the one seen when the counter query raised.
isActive_at_failure(h) ==
    IF obs.stateAtFail = "active" THEN Return(PyInt(1))
    ELSE IF obs.stateAtFail = "inactive" THEN Return(PyInt(0))
    ELSE IF h.uuid \in defined
    THEN Return(PyInt(IF active[h.uuid] THEN 1 ELSE 0))
    ELSE Raise(libvirtError("isActive", "VIR_ERR_NO_DOMAIN"))

\* domain.isActive() on a handle: 1, 0, or libvirtError when the domain is gone.
domain_isActive(h) ==
    IF h.uuid \in defined
    THEN Return(PyInt(IF active[h.uuid] THEN 1 ELSE 0))
    ELSE Raise(libvirtError("isActive", "VIR_ERR_NO_DOMAIN"))

\* dict.get(key, default)
get(d, key, default) == IF key \in DOMAIN d THEN d[key] ELSE default
\* Python 2 division of two non-negative integers
PyDiv(a, b) == a \div b

MemoryZero == [free |-> 0, available |-> 0, current_allocation |-> 0]
IfaceZero == [read |-> PyInt(0), write |-> PyInt(0)]
DiskZero == [k \in DiskKeys |-> 0]

CounterFns == {"get_memory", "get_ifaceio", "get_diskio"}
CounterCall(fn) ==
    CASE fn = "get_memory" -> "memoryStats"
      [] fn = "get_ifaceio" -> "interfaceStats"
      [] fn = "get_diskio" -> "blockStatsFlags"
CounterStats(fn) ==
    CASE fn = "get_memory" -> MemoryStats
      [] fn = "get_ifaceio" -> InterfaceStats
      [] fn = "get_diskio" -> BlockStats
ZeroRecord(fn) ==
    CASE fn = "get_memory" -> MemoryZero
      [] fn = "get_ifaceio" -> IfaceZero
      [] fn = "get_diskio" -> DiskZero

\* Variant: the error is re-raised whatever the power state.
except_always_raises(answer, err, zero) ==
    IF answer.kind = "raise" THEN answer ELSE Raise(err)
\* Variant: the error is swallowed whatever the power state.
except_always_zero(answer, err, zero) ==
    IF answer.kind = "raise" THEN answer ELSE Return(zero)

\* The except clause of get_memory, get_ifaceio and get_diskio: `answer` is
\* the outcome of domain.isActive(), `err` the libvirtError being handled.
counter_except(answer, err, zero) ==
    IF answer.kind = "raise" THEN answer
    ELSE IF answer.value.int # 0 THEN Raise(err)
    ELSE Return(zero)

\* Variant: kilobytes of 1000 bytes.
memory_times_1000(stats) ==
    [free |-> get(stats, "unused", 0) * 1000,
     available |-> get(stats, "usable", 0) * 1000,
     current_allocation |-> get(stats, "actual", 0) * 1000]

get_memory_return(stats) ==
    [free |-> get(stats, "unused", 0) * KiB,
     available |-> get(stats, "usable", 0) * KiB,
     current_allocation |-> get(stats, "actual", 0) * KiB]

get_ifaceio_return(stats) == [read |-> str(stats[1]), write |-> str(stats[5])]

get_diskio_return(stats) == stats

counter_return(fn, stats) ==
    CASE fn = "get_memory" -> get_memory_return(stats)
      [] fn = "get_ifaceio" -> get_ifaceio_return(stats)
      [] fn = "get_diskio" -> get_diskio_return(stats)

\* Variant: the total cpu time, not divided by the core count.
cpu_time_total(info, timestamp) ==
    IF info[4] = 0 THEN Raise(ZeroDivisionError)
    ELSE Return([cpu_time |-> info[5], core_count |-> info[4], timestamp |-> timestamp])

\* info is (state, maxMem, memory, nrVirtCpu, cpuTime); Python indexes from 0.
get_cpu_return(info, timestamp) ==
    IF info[4] = 0 THEN Raise(ZeroDivisionError)
    ELSE Return([cpu_time |-> PyDiv(info[5], info[4]),
                 core_count |-> info[4],
                 timestamp |-> timestamp])

Sentinel == PyStr("non-openstack-instance")
\* tree.find("metadata/nova:instance/nova:owner")
find_owner(tree) == IF tree.nova.block = "owner" THEN tree.nova ELSE NoElement
\* elem.get("uuid") and elem.text fail on the None that find() returns for a
\* missing element.
_get_instance_attributes(tree) ==
    LET element == find_owner(tree)
    IN  IF element = NoElement
        THEN Return([user_uuid |-> Sentinel, project_uuid |-> Sentinel,
                     user_name |-> Sentinel, project_name |-> Sentinel])
        ELSE IF element.user = NoElement \/ element.project = NoElement
        THEN Raise(AttributeError("get"))
        ELSE Return([user_uuid |-> element.user.uuid,
                     project_uuid |-> element.project.uuid,
                     user_name |-> element.user.text,
                     project_name |-> element.project.text])

discover_vnics_return(tree) ==
    [i \in 1..Len(tree.interfaces) |-> ("{#VNIC}" :> tree.interfaces[i])]
discover_vdisks_return(tree) ==
    [i \in 1..Len(tree.disks) |-> ("{#VDISK}" :> tree.disks[i])]

\* The domains in the order listAllDomains() returns them.
listAllDomains(known) == SelectSeq(DomainOrder, LAMBDA u : u \in known)

discover_domains_return(domains) ==
    [i \in 1..Len(domains) |->
        ("{#DOMAINUUID}" :> PyStr(domains[i])) @@ ("{#DOMAINNAME}" :> PyStr(DomainName(domains[i])))]

LibvirtConnection_init(open) ==
    IF open = "error" THEN Raise(LibvirtConnectionError("libvirtError"))
    ELSE IF open = "null"
    THEN Raise(LibvirtConnectionError("Failed to open connection to the hypervisor: " \o Uri))
    ELSE Return(PyStr("conn"))

\* ------------------------------------------------------------ main.py, pure
\* The names main.py binds from libvirt_checks.
MainNames == {"LibvirtConnection"}

\* The except clause of main(): Python evaluates the clause's expression when
\* an exception reaches it, and an unbound name there raises NameError.
main_except(exc) ==
    IF "LibvirtConnectionError" \notin MainNames
    THEN [logged |-> FALSE, escaped |-> NameError("LibvirtConnectionError")]
    ELSE IF exc.type = "LibvirtConnectionError"
    THEN [logged |-> TRUE, escaped |-> NoExc]
    ELSE [logged |-> FALSE, escaped |-> exc]

MainActions == {"list", "vnics", "vdisks", "vnic", "vdisk", "cpu", "memory", "misc"}
main_dispatch(action) ==
    CASE action = "list" -> "discover_domains"
      [] action = "vnics" -> "discover_vnics"
      [] action = "vdisks" -> "discover_vdisks"
      [] action = "vnic" -> "get_ifaceio"
      [] action = "vdisk" -> "get_diskio"
      [] action = "cpu" -> "get_cpu"
      [] action = "memory" -> "get_memory"
      [] OTHER -> "none"
Methods(action) ==
    IF action \in {"vnic", "vdisk", "cpu", "memory"} THEN {"read", "rd_bytes", "cpu_time", "free"}
    ELSE {""}
Params(action) ==
    IF action = "vnic" THEN Ifaces ELSE IF action = "vdisk" THEN Disks ELSE {""}

list_to_zbx(data) == [json |-> [data |-> IF data = <<>> THEN <<>> ELSE data]]

\* What main() prints for the value the inspector returned, or the error of
\* stats[method].
main_print(a, value) ==
    IF a.action \in {"list", "vnics", "vdisks"} THEN Return(list_to_zbx(value))
    ELSE IF a.method \in DOMAIN value THEN Return(value[a.method])
    ELSE Raise(KeyError(a.method))

\* ------------------------------------------------------------- the machine
ApiOps == {"discover_domains", "discover_vnics", "discover_vdisks", "get_memory",
    "get_misc_attributes", "get_cpu", "get_ifaceio", "get_diskio", "is_active",
    "_get_instance_attributes"}
UuidOps == (ApiOps \cup {"_get_domain_xmldump"}) \ {"discover_domains"}

StartPc(fn) ==
    IF fn = "discover_domains" THEN "list"
    ELSE IF fn \in {"discover_vnics", "discover_vdisks", "_get_instance_attributes"}
    THEN "call_xml"
    ELSE "lookup"
AfterLookup(fn) ==
    CASE fn \in CounterFns -> "counter"
      [] fn = "get_cpu" -> "info"
      [] fn = "_get_domain_xmldump" -> "xml"
      [] fn = "is_active" -> "isActive"
      [] fn = "get_misc_attributes" -> "call_attrs"

Frame(fn, id) ==
    [fn |-> fn, id |-> id, pc |-> StartPc(fn), domain |-> NoHandle, val |-> None,
     err |-> NoExc, local |-> None]

NoObs ==
    [fn |-> "none",           \* the method called
     lookup |-> "n/a",        \* whether the host had the UUID at the last lookup
     counter |-> "none",      \* how the counter query ended: ok, failed
     err |-> NoExc,           \* the error the counter query raised
     stateAtFail |-> "n/a",   \* the domain's power state when it raised
     asked |-> 0,             \* is-active queries issued by the except clause
     hostAtCheck |-> "n/a",   \* the domain's power state at that query
     got |-> FALSE,           \* whether the host answered the data query
     raw |-> None]            \* the data it answered with
NoQuery == [q |-> "none", fn |-> "none", issuer |-> 0, handle |-> NoHandle]
Query(q, frame, h) == [q |-> q, fn |-> frame.fn, issuer |-> frame.id, handle |-> h]
PowerState(u) ==
    IF u \notin defined THEN "gone" ELSE IF active[u] THEN "active" ELSE "inactive"

Top == stack[Len(stack)]
SetTop(f) == [stack EXCEPT ![Len(stack)] = f]
\* Variant: a nested call queries the handle of the method that called it.
caller_handle(stk) == stk[1].domain
\* The handle a frame's domain-scoped query goes to: its own local `domain`.
QueryHandle(stk) == stk[Len(stk)].domain

Init ==
    /\ defined \in SUBSET UUIDS
    /\ active \in [UUIDS -> BOOLEAN]
    /\ \A u \in UUIDS : active[u] => u \in defined
    /\ caller \in {"main", "api"}
    /\ pc = "start"
    /\ conn = "none"
    /\ args = [action |-> "", domain |-> "", params |-> "", method |-> ""]
    /\ stack = <<>>
    /\ nextId = 1
    /\ ret = NoRet
    /\ stdout = <<>>
    /\ logged = FALSE
    /\ escaped = NoExc
    /\ obs = NoObs
    /\ lastQuery = NoQuery

\* ---- the host changes under the program
HostDefine(u) ==
    /\ u \notin defined
    /\ defined' = defined \cup {u}
    /\ UNCHANGED <<active, caller, pc, conn, args, stack, nextId, ret, stdout, logged,
        escaped, obs, lastQuery>>
HostUndefine(u) ==
    /\ u \in defined
    /\ defined' = defined \ {u}
    /\ active' = [active EXCEPT ![u] = FALSE]
    /\ UNCHANGED <<caller, pc, conn, args, stack, nextId, ret, stdout, logged,
        escaped, obs, lastQuery>>
HostStart(u) ==
    /\ u \in defined /\ ~active[u]
    /\ active' = [active EXCEPT ![u] = TRUE]
    /\ UNCHANGED <<defined, caller, pc, conn, args, stack, nextId, ret, stdout, logged,
        escaped, obs, lastQuery>>
HostStop(u) ==
    /\ u \in defined /\ active[u]
    /\ active' = [active EXCEPT ![u] = FALSE]
    /\ UNCHANGED <<defined, caller, pc, conn, args, stack, nextId, ret, stdout, logged,
        escaped, obs, lastQuery>>

\* ---- the caller
\* A call ends: its outcome goes to the caller. main() prints the value and
\* ends; a library user may call again.
Complete(out) ==
    /\ stack' = <<>>
    /\ ret' = out
    /\ IF caller = "main"
       THEN LET p == IF out.kind = "raise" THEN out ELSE main_print(args, out.value)
            IN  /\ pc' = "exit"
                /\ stdout' = IF p.kind = "return" THEN Append(stdout, p.value) ELSE stdout
                /\ escaped' = IF p.kind = "raise" THEN p.exc ELSE escaped
       ELSE pc' = "ready" /\ UNCHANGED <<stdout, escaped>>

\* The innermost frame ends with `out`. No frame of the inspector handles an
\* exception of a call it makes, so a raise unwinds the whole stack.
Deliver(out) ==
    IF out.kind = "raise" \/ Len(stack) = 1
    THEN Complete(out)
    ELSE /\ stack' = [SubSeq(stack, 1, Len(stack) - 1) EXCEPT ![Len(stack) - 1].val = out.value]
         /\ UNCHANGED <<ret, pc, stdout, escaped>>

\* The innermost frame goes on as `f`.
Continue(f) ==
    /\ stack' = SetTop(f)
    /\ UNCHANGED <<ret, pc, stdout, escaped>>

\* The innermost frame calls fn and waits at `at` for its value.
Call(fn, at) ==
    /\ stack' = Append(SetTop([Top EXCEPT !.pc = at]), Frame(fn, nextId))
    /\ nextId' = nextId + 1
    /\ UNCHANGED <<ret, pc, stdout, escaped>>

\* main(): LibvirtConnection(args.uri) inside try/except; a library user
\* constructs the connection unguarded.
Connect ==
    /\ pc = "start"
    /\ \E open \in {"ok", "error", "null"} :
        LET r == LibvirtConnection_init(open)
            m == IF r.kind = "return" THEN [logged |-> FALSE, escaped |-> NoExc]
                 ELSE IF caller = "main" THEN main_except(r.exc)
                 ELSE [logged |-> FALSE, escaped |-> r.exc]
        IN  /\ conn' = IF r.kind = "return" THEN "open" ELSE "failed"
            /\ pc' = IF r.kind = "return" THEN "ready" ELSE "exit"
            /\ logged' = m.logged
            /\ escaped' = m.escaped
    /\ UNCHANGED <<defined, active, caller, args, stack, nextId, ret, stdout, obs, lastQuery>>

Start(fn, a) ==
    /\ args' = a
    /\ stack' = <<Frame(fn, nextId)>>
    /\ nextId' = nextId + 1
    /\ pc' = "busy"
    /\ ret' = NoRet
    /\ obs' = [NoObs EXCEPT !.fn = fn]
    /\ lastQuery' = NoQuery
    /\ UNCHANGED <<defined, active, caller, conn, stdout, logged, escaped>>

\* main(): the if/elif chain on args.action.
MainDispatch ==
    /\ caller = "main" /\ pc = "ready" /\ conn = "open"
    /\ \E action \in MainActions, u \in UUIDS :
        \E p \in Params(action), m \in Methods(action) :
            LET a == [action |-> action, domain |-> u, params |-> p, method |-> m]
            IN  IF main_dispatch(action) = "none"
                THEN /\ pc' = "exit"
                     /\ args' = a
                     /\ UNCHANGED <<defined, active, caller, conn, stack, nextId, ret,
                            stdout, logged, escaped, obs, lastQuery>>
                ELSE Start(main_dispatch(action), a)

\* A library user calls one inspector method on the open connection.
ApiCall ==
    /\ caller = "api" /\ pc = "ready" /\ conn = "open"
    /\ nextId + 2 <= MaxIds
    /\ \E fn \in ApiOps, u \in UUIDS :
        Start(fn, [action |-> fn, domain |-> u, params |-> "", method |-> ""])

\* ---- the inspector, one library call per step
\* domain = self._get_domain_by_uuid(domain_uuid_string)
Lookup ==
    /\ stack # <<>> /\ Top.pc = "lookup"
    /\ LET r == _get_domain_by_uuid(defined, args.domain, Top.id)
       IN  IF r.kind = "raise"
           THEN Deliver(r)
           ELSE Continue([Top EXCEPT !.domain = r.value, !.pc = AfterLookup(Top.fn)])
    /\ obs' = [obs EXCEPT !.lookup = IF args.domain \in defined THEN "found" ELSE "unknown"]
    /\ UNCHANGED <<defined, active, caller, conn, args, nextId, logged, lastQuery>>

\* stats = domain.memoryStats() / interfaceStats(iface) / blockStatsFlags(disk)
CounterOk ==
    /\ stack # <<>> /\ Top.pc = "counter"
    /\ QueryHandle(stack).uuid \in defined
    /\ \E stats \in CounterStats(Top.fn) :
        /\ Deliver(Return(counter_return(Top.fn, stats)))
        /\ obs' = [obs EXCEPT !.counter = "ok", !.got = TRUE, !.raw = stats]
    /\ lastQuery' = Query(CounterCall(Top.fn), Top, QueryHandle(stack))
    /\ UNCHANGED <<defined, active, caller, conn, args, nextId, logged>>

CounterFails ==
    /\ stack # <<>> /\ Top.pc = "counter"
    /\ \E code \in ErrCodes :
        LET err == libvirtError(CounterCall(Top.fn), code)
        IN  /\ Continue([Top EXCEPT !.err = err, !.pc = "except"])
            /\ obs' = [obs EXCEPT !.counter = "failed", !.err = err,
                                   !.stateAtFail = PowerState(args.domain)]
    /\ lastQuery' = Query(CounterCall(Top.fn), Top, QueryHandle(stack))
    /\ UNCHANGED <<defined, active, caller, conn, args, nextId, logged>>

\* except libvirt.libvirtError: if domain.isActive(): raise / else: return zeros
CounterExcept ==
    /\ stack # <<>> /\ Top.pc = "except"
    /\ Deliver(counter_except(domain_isActive(QueryHandle(stack)), Top.err, ZeroRecord(Top.fn)))
    /\ obs' = [obs EXCEPT !.asked = @ + 1, !.hostAtCheck = PowerState(args.domain)]
    /\ lastQuery' = Query("isActive", Top, QueryHandle(stack))
    /\ UNCHANGED <<defined, active, caller, conn, args, nextId, logged>>

\* info = domain.info(); timestamp = time.time(); return {...}
CpuInfo ==
    /\ stack # <<>> /\ Top.pc = "info"
    /\ IF QueryHandle(stack).uuid \notin defined
       THEN /\ Deliver(Raise(libvirtError("info", "VIR_ERR_NO_DOMAIN")))
            /\ obs' = obs
       ELSE \E info \in DomainInfos, t \in Clock :
            /\ info[1] = (IF active[QueryHandle(stack).uuid] THEN 1 ELSE 5)
            /\ Deliver(get_cpu_return(info, t))
            /\ obs' = [obs EXCEPT !.got = TRUE, !.raw = info]
    /\ lastQuery' = Query("info", Top, QueryHandle(stack))
    /\ UNCHANGED <<defined, active, caller, conn, args, nextId, logged>>

\* return ElementTree.fromstring(domain.XMLDesc())
XmlDesc ==
    /\ stack # <<>> /\ Top.pc = "xml"
    /\ IF QueryHandle(stack).uuid \notin defined
       THEN /\ Deliver(Raise(libvirtError("XMLDesc", "VIR_ERR_NO_DOMAIN")))
            /\ obs' = obs
       ELSE \E tree \in Descriptors :
            /\ Deliver(Return(tree))
            /\ obs' = [obs EXCEPT !.got = TRUE, !.raw = tree]
    /\ lastQuery' = Query("XMLDesc", Top, QueryHandle(stack))
    /\ UNCHANGED <<defined, active, caller, conn, args, nextId, logged>>

\* tree = self._get_domain_xmldump(domain_uuid_string)
CallXml ==
    /\ stack # <<>> /\ Top.pc = "call_xml"
    /\ Call("_get_domain_xmldump", "got_xml")
    /\ UNCHANGED <<defined, active, caller, conn, args, logged, obs, lastQuery>>

\* discover_vnics, discover_vdisks, _get_instance_attributes after the dump
GotXml ==
    /\ stack # <<>> /\ Top.pc = "got_xml"
    /\ Deliver(CASE Top.fn = "discover_vnics" -> Return(discover_vnics_return(Top.val))
                 [] Top.fn = "discover_vdisks" -> Return(discover_vdisks_return(Top.val))
                 [] Top.fn = "_get_instance_attributes" -> _get_instance_attributes(Top.val))
    /\ UNCHANGED <<defined, active, caller, conn, args, nextId, logged, obs, lastQuery>>

\* get_misc_attributes: instance_attributes = self._get_instance_attributes(...)
MiscCallAttrs ==
    /\ stack # <<>> /\ Top.pc = "call_attrs"
    /\ Call("_get_instance_attributes", "got_attrs")
    /\ UNCHANGED <<defined, active, caller, conn, args, logged, obs, lastQuery>>

\* get_misc_attributes: virt_host, name = domain.name(), then self.is_active(...)
MiscCallActive ==
    /\ stack # <<>> /\ Top.pc = "got_attrs"
    /\ LET h == QueryHandle(stack)
           attrs == Top.val @@ ("virt_host" :> PyStr(Hostname))
                            @@ ("name" :> PyStr(DomainName(h.uuid)))
       IN  /\ stack' = Append(SetTop([Top EXCEPT !.pc = "got_active", !.local = attrs]),
                              Frame("is_active", nextId))
           /\ lastQuery' = Query("name", Top, h)
    /\ nextId' = nextId + 1
    /\ UNCHANGED <<defined, active, caller, pc, conn, args, ret, stdout, logged, escaped, obs>>

\* get_misc_attributes: instance_attributes["active"] = ...; return
MiscReturn ==
    /\ stack # <<>> /\ Top.pc = "got_active"
    /\ Deliver(Return(Top.local @@ ("active" :> Top.val)))
    /\ UNCHANGED <<defined, active, caller, conn, args, nextId, logged, obs, lastQuery>>

\* is_active: return domain.isActive()
IsActiveQuery ==
    /\ stack # <<>> /\ Top.pc = "isActive"
    /\ Deliver(domain_isActive(QueryHandle(stack)))
    /\ lastQuery' = Query("isActive", Top, QueryHandle(stack))
    /\ UNCHANGED <<defined, active, caller, conn, args, nextId, logged, obs>>

\* discover_domains: listAllDomains(), then UUIDString() and name() of each
\* handle the enumeration returned.
DiscoverDomains ==
    /\ stack # <<>> /\ Top.pc = "list"
    /\ LET domains == listAllDomains(defined)
       IN  /\ Deliver(Return(discover_domains_return(domains)))
           /\ lastQuery' = IF domains = <<>> THEN lastQuery
                           ELSE Query("name", Top, Handle(Top.id, domains[Len(domains)], "list"))
    /\ UNCHANGED <<defined, active, caller, conn, args, nextId, logged, obs>>

Next ==
    \/ \E u \in UUIDS : HostDefine(u)
    \/ \E u \in UUIDS : HostUndefine(u)
    \/ \E u \in UUIDS : HostStart(u)
    \/ \E u \in UUIDS : HostStop(u)
    \/ Connect
    \/ MainDispatch
    \/ ApiCall
    \/ Lookup
    \/ CounterOk
    \/ CounterFails
    \/ CounterExcept
    \/ CpuInfo
    \/ XmlDesc
    \/ CallXml
    \/ GotXml
    \/ MiscCallAttrs
    \/ MiscCallActive
    \/ MiscReturn
    \/ IsActiveQuery
    \/ DiscoverDomains

Spec == Init /\ [][Next]_vars

\* ------------------------------------------------------------- properties
Ended(fn) == stack = <<>> /\ ret.kind # "none" /\ obs.fn = fn
NoDomain == libvirtError("isActive", "VIR_ERR_NO_DOMAIN")

\* C1: when the counter query of get_memory, get_ifaceio or get_diskio fails
\* and the host then reports the domain inactive, the call returns the
\* all-zero record of that method and does not raise.
C1_InactiveDegrades ==
    \A fn \in CounterFns :
        (Ended(fn) /\ obs.counter = "failed" /\ obs.hostAtCheck = "inactive")
            => ret = Return(ZeroRecord(fn))
C1_Witness ==
    /\ Ended("get_diskio") /\ obs.counter = "failed" /\ obs.hostAtCheck = "inactive"
    /\ ret.kind = "return" /\ \A k \in DiskKeys : ret.value[k] = 0

\* C2: when the counter query fails and the host then reports the domain
\* active, the call raises the very error the counter query raised: the same
\* libvirtError, of the same call and code, and no record is returned.
C2_ActiveEscalates ==
    \A fn \in CounterFns :
        (Ended(fn) /\ obs.counter = "failed" /\ obs.hostAtCheck = "active")
            => /\ ret = Raise(obs.err)
               /\ obs.err.type = "libvirtError"
               /\ obs.err.call = CounterCall(fn)
               /\ obs.err.code \in ErrCodes
C2_Witness ==
    /\ Ended("get_ifaceio") /\ obs.counter = "failed" /\ obs.hostAtCheck = "active"
    /\ ret = Raise(libvirtError("interfaceStats", "VIR_ERR_INTERNAL_ERROR"))

\* C3: when opening the connection fails, main() logs the error and returns:
\* no exception leaves it, nothing is printed and no inspector call is made.
C3_ConnectFailureHandled ==
    (caller = "main" /\ conn = "failed")
        => /\ pc = "exit"
           /\ escaped = NoExc
           /\ logged
           /\ stdout = <<>>
           /\ stack = <<>> /\ nextId = 1

\* C4: a lookup of a UUID the host does not have ends the call at once with
\* DomainNotFoundError, whatever the method, and a frame past its lookup
\* holds a real handle of the requested domain, never a null one.
C4_UnknownUuidFails ==
    /\ obs.lookup = "unknown"
        => /\ stack = <<>> /\ obs.fn \in UuidOps
           /\ ret = Raise(DomainNotFoundError("Failed to find domain: " \o args.domain))
    /\ \A i \in 1..Len(stack) :
        (StartPc(stack[i].fn) = "lookup" /\ stack[i].pc # "lookup")
            => stack[i].domain = Handle(stack[i].id, args.domain, "uuid")
C4_Witness ==
    /\ Ended("get_memory") /\ obs.lookup = "unknown"
    /\ ret.kind = "raise" /\ ret.exc.type = "DomainNotFoundError"

\* C5: _get_instance_attributes returns the four sentinel fields for a
\* descriptor without the nova metadata block, and whatever the descriptor a
\* record it returns has all four fields, none of them null.
C5_OwnerMetadataTotal ==
    (Ended("_get_instance_attributes") /\ obs.got)
        => /\ obs.raw.nova.block = "absent"
                => ret = Return([user_uuid |-> Sentinel, project_uuid |-> Sentinel,
                                 user_name |-> Sentinel, project_name |-> Sentinel])
           /\ ret.kind = "return"
                => /\ DOMAIN ret.value = {"user_uuid", "project_uuid", "user_name", "project_name"}
                   /\ \A k \in DOMAIN ret.value : IsStr(ret.value[k])

\* C6: every record get_ifaceio returns has strings for read and write.
C6_IfaceStrings ==
    (Ended("get_ifaceio") /\ ret.kind = "return")
        => IsStr(ret.value.read) /\ IsStr(ret.value.write)

\* C7: for accumulated cpu time T >= 0 and core count C > 0, get_cpu returns
\* cpu_time = floor(T / C), the q with q*C <= T < (q+1)*C, and core_count = C.
C7_CpuFloor ==
    (Ended("get_cpu") /\ obs.got /\ obs.raw[4] > 0)
        => /\ ret.kind = "return"
           /\ ret.value.cpu_time * obs.raw[4] <= obs.raw[5]
           /\ obs.raw[5] < (ret.value.cpu_time + 1) * obs.raw[4]
           /\ ret.value.core_count = obs.raw[4]
C7_Witness ==
    /\ Ended("get_cpu") /\ obs.got /\ obs.raw[4] = 2 /\ obs.raw[5] = 5
    /\ ret.kind = "return" /\ ret.value.cpu_time = 2 /\ ret.value.core_count = 2

\* C8: when memoryStats succeeds, free, available and current_allocation are
\* 1024 times the raw unused, usable and actual the host reported, and
\* dividing by 1024 gives the raw value back.
MemField(k) ==
    CASE k = "unused" -> "free" [] k = "usable" -> "available" [] k = "actual" -> "current_allocation"
C8_MemoryScaled ==
    (Ended("get_memory") /\ obs.counter = "ok")
        => /\ ret.kind = "return"
           /\ DOMAIN ret.value = {"free", "available", "current_allocation"}
           /\ \A k \in DOMAIN obs.raw :
                /\ ret.value[MemField(k)] = 1024 * obs.raw[k]
                /\ ret.value[MemField(k)] \div 1024 = obs.raw[k]
C8_Witness ==
    /\ Ended("get_memory") /\ obs.counter = "ok"
    /\ DOMAIN obs.raw = MemKeys
    /\ obs.raw["unused"] = 1 /\ obs.raw["usable"] = 2 /\ obs.raw["actual"] = 0
    /\ ret.value = [free |-> 1024, available |-> 2048, current_allocation |-> 0]

\* C9: the except clause asks is-active once, after the counter query failed
\* and on the handle the call resolved at its start; it is not asked when the
\* counter query succeeds; and the outcome is decided by the domain's state
\* at that question alone (active: the error; inactive: zeros; gone: the
\* error of is-active), whatever the error's code and whatever the state
\* was when the counter query failed.
C9_FollowUpDecides ==
    /\ obs.counter = "ok" => obs.asked = 0
    /\ obs.asked > 0 => obs.counter = "failed"
    /\ (lastQuery.q = "isActive" /\ lastQuery.fn \in CounterFns)
        => lastQuery.handle = Handle(lastQuery.issuer, args.domain, "uuid")
    /\ \A fn \in CounterFns :
        (Ended(fn) /\ obs.counter = "failed")
            => /\ obs.asked = 1
               /\ ret = CASE obs.hostAtCheck = "active" -> Raise(obs.err)
                           [] obs.hostAtCheck = "inactive" -> Return(ZeroRecord(fn))
                           [] obs.hostAtCheck = "gone" -> Raise(NoDomain)
C9_Witness ==
    /\ Ended("get_memory") /\ obs.counter = "failed"
    /\ obs.stateAtFail = "active" /\ obs.hostAtCheck = "inactive"
    /\ obs.asked = 1 /\ ret = Return(MemoryZero)

\* C10: every domain-scoped query of a method that takes a UUID goes to a
\* handle that the very frame issuing it looked up by that UUID; no frame
\* holds a handle another frame obtained, also inside get_misc_attributes and
\* while the host's domain set changes. discover_domains, which takes no
\* UUID, reads from the handles of its own enumeration.
C10_FreshHandle ==
    /\ lastQuery.q # "none"
        => /\ lastQuery.handle.id = lastQuery.issuer
           /\ lastQuery.fn \in UuidOps
                => lastQuery.handle = Handle(lastQuery.issuer, args.domain, "uuid")
    /\ \A i \in 1..Len(stack) :
        /\ stack[i].domain = NoHandle \/ stack[i].domain.id = stack[i].id
        /\ stack[i].id < nextId
        /\ \A j \in 1..Len(stack) : i < j => stack[i].id < stack[j].id
C10_Witness ==
    /\ Len(stack) = 2 /\ stack[1].fn = "get_misc_attributes" /\ stack[2].fn = "is_active"
    /\ stack[2].pc = "isActive"
    /\ stack[1].domain.id = stack[1].id /\ stack[2].domain.id = stack[2].id
    /\ lastQuery.q = "name" /\ lastQuery.issuer = stack[1].id
    /\ stack[1].id > 1
====
